---------------------------- MODULE Spec2Model ----------------------------
(***************************************************************************)
(* Model of get_affiliations_from_bib (fetch_affiliations_from_bib.py).    *)
(*                                                                         *)
(* A Python string is a sequence of one-character strings.  Accented       *)
(* letters are written with an ASCII mark: "c^" is c-caron, "c'" is        *)
(* c-acute, "C^" and "C'" their capitals.  Python's None is the value      *)
(* None below, a one-element sequence that is no string of characters.     *)
(*                                                                         *)
(* The source text lacks a closing bracket on lines 54, 86, 99, 103 and    *)
(* 146; it is read with the brackets restored (parts[:-1], and the         *)
(* subscripts [local_author["full_name"]], [author_full_name], title[:100]).*)
(*                                                                         *)
(* The entries of the file are drawn one by one as the loop reads them;    *)
(* entries holds the ones read so far.  response, retry, requests,         *)
(* lookup_error, matched and row_src record what the run did and met, the  *)
(* code does not read them.                                                *)
(***************************************************************************)
EXTENDS Integers, Sequences, FiniteSets, TLC

\* ------------------------------------------------------------------------
\* Bounds of the exploration
\* ------------------------------------------------------------------------

\* number of entries of the .bib file that are read
MaxEntries == 2

\* ------------------------------------------------------------------------
\* Python string primitives
\* ------------------------------------------------------------------------

None == <<"None">>

UpperChars ==
    <<"A", "B", "C", "D", "E", "F", "G", "H", "I", "J", "K", "L", "M",
      "N", "O", "P", "Q", "R", "S", "T", "U", "V", "W", "X", "Y", "Z",
      "C'", "C^">>

LowerChars ==
    <<"a", "b", "c", "d", "e", "f", "g", "h", "i", "j", "k", "l", "m",
      "n", "o", "p", "q", "r", "s", "t", "u", "v", "w", "x", "y", "z",
      "c'", "c^">>

\* the characters of the model in increasing code point order
CodePoints ==
    <<"\n", " ", ",", ".", "/", "0", "1", "2", "3", "4", "5", "6", "7",
      "8", "9", "A", "B", "C", "D", "E", "F", "G", "H", "I", "J", "K",
      "L", "M", "N", "O", "P", "Q", "R", "S", "T", "U", "V", "W", "X",
      "Y", "Z", "a", "b", "c", "d", "e", "f", "g", "h", "i", "j", "k",
      "l", "m", "n", "o", "p", "q", "r", "s", "t", "u", "v", "w", "x",
      "y", "z", "{", "}", "C'", "c'", "C^", "c^">>

\* characters matched by \s and removed by str.strip()
Whitespace == {" ", "\n"}

Min(a, b) == IF a < b THEN a ELSE b

IndexIn(seq, c) == CHOOSE i \in 1..Len(seq) : seq[i] = c

\* the characters of the model
Chars == {CodePoints[i] : i \in 1..Len(CodePoints)}

\* the rank of every character in the code point order
CodePointOf == [c \in Chars |-> IndexIn(CodePoints, c)]

ord(c) == CodePointOf[c]

\* the lower-case form of every character
LowerOf ==
    [c \in Chars |->
        IF \E i \in 1..Len(UpperChars) : UpperChars[i] = c
        THEN LowerChars[IndexIn(UpperChars, c)]
        ELSE c]

\* str.lower() of one character
lower_char(c) == LowerOf[c]

\* the mutation of lower: no case folding
lower_identity(s) == s

\* str.lower()
lower(s) == [i \in 1..Len(s) |-> lower_char(s[i])]

\* Python's  a < b  on two strings
str_lt(a, b) ==
    \E k \in 1..(Min(Len(a), Len(b)) + 1) :
        /\ \A j \in 1..(k - 1) : a[j] = b[j]
        /\ \/ k = Len(a) + 1 /\ k <= Len(b)
           \/ k <= Len(a) /\ k <= Len(b) /\ ord(a[k]) < ord(b[k])

\* Python's  needle in hay  on two strings
str_in(needle, hay) ==
    \E i \in 0..(Len(hay) - Len(needle)) :
        \A j \in 1..Len(needle) : hay[i + j] = needle[j]

\* str.strip()
strip(s) ==
    LET keep == {i \in 1..Len(s) : s[i] \notin Whitespace}
    IN  IF keep = {} THEN <<>>
        ELSE LET lo == CHOOSE i \in keep : \A j \in keep : i <= j
                 hi == CHOOSE i \in keep : \A j \in keep : j <= i
             IN  SubSeq(s, lo, hi)

\* s[from:] in 1-based positions
Tail_from(s, from) == SubSeq(s, from, Len(s))

\* str.split(sep) for a one-character separator: every occurrence splits
RECURSIVE str_split(_, _)
str_split(s, sep) ==
    IF \A i \in 1..Len(s) : s[i] # sep THEN <<s>>
    ELSE LET p == CHOOSE i \in 1..Len(s) :
                      s[i] = sep /\ \A j \in 1..(i - 1) : s[j] # sep
         IN  <<SubSeq(s, 1, p - 1)>> \o str_split(Tail_from(s, p + 1), sep)

\* " ".join(parts)
RECURSIVE str_join(_)
str_join(parts) ==
    IF Len(parts) = 0 THEN <<>>
    ELSE IF Len(parts) = 1 THEN parts[1]
    ELSE parts[1] \o <<" ">> \o str_join(Tail(parts))

\* first position >= i of s that holds no whitespace (Len(s) + 1 if none)
RECURSIVE RunEnd(_, _)
RunEnd(s, i) ==
    IF i > Len(s) THEN i
    ELSE IF s[i] \in Whitespace THEN RunEnd(s, i + 1)
    ELSE i

\* where a match of \s+and\s+ (IGNORECASE) that starts at i ends,
\* as the position after the match; 0 if no match starts at i
AndMatchEnd(s, i) ==
    IF i > Len(s) \/ s[i] \notin Whitespace THEN 0
    ELSE LET j == RunEnd(s, i)
         IN  IF /\ j + 3 <= Len(s)
                /\ lower(SubSeq(s, j, j + 2)) = <<"a", "n", "d">>
                /\ s[j + 3] \in Whitespace
             THEN RunEnd(s, j + 3)
             ELSE 0

\* re.split(r'\s+and\s+', s, flags=re.IGNORECASE), scanning from position i
\* with the current segment starting at position from
RECURSIVE re_split_and(_, _, _)
re_split_and(s, from, i) ==
    IF i > Len(s) THEN <<SubSeq(s, from, Len(s))>>
    ELSE LET e == AndMatchEnd(s, i)
         IN  IF e = 0 THEN re_split_and(s, from, i + 1)
             ELSE <<SubSeq(s, from, i - 1)>> \o re_split_and(s, e, e)

\* re.sub(r'\{.*?\}', '', s), scanning from position i
RECURSIVE sub_braces(_, _)
sub_braces(s, i) ==
    IF i > Len(s) THEN <<>>
    ELSE LET closing == {j \in (i + 1)..Len(s) :
                            /\ s[j] = "}"
                            /\ \A k \in (i + 1)..(j - 1) : s[k] # "\n"}
         IN  IF s[i] = "{" /\ closing # {}
             THEN sub_braces(s, (CHOOSE j \in closing :
                                    \A k \in closing : j <= k) + 1)
             ELSE <<s[i]>> \o sub_braces(s, i + 1)

\* re.sub(r'\s+', ' ', s), scanning from position i
RECURSIVE sub_spaces(_, _)
sub_spaces(s, i) ==
    IF i > Len(s) THEN <<>>
    ELSE IF s[i] \in Whitespace
         THEN <<" ">> \o sub_spaces(s, RunEnd(s, i))
         ELSE <<s[i]>> \o sub_spaces(s, i + 1)

\* ------------------------------------------------------------------------
\* Parsing of one entry
\* ------------------------------------------------------------------------

\* title[:100] keeps at most this many characters
TitleUsedLen == 100

\* a title takes the title branch only if it is longer than this
MinTitleLen == 10

\* "N/A"
NA == <<"N", "/", "A">>

\* the title after the two re.sub calls and strip()
clean_title(raw) == strip(sub_spaces(sub_braces(strip(raw), 1), 1))

\* title[:100]
title_prefix(t) == SubSeq(t, 1, Min(TitleUsedLen, Len(t)))

\* the dictionary built for one segment of the author field
parse_author(author_name_str) ==
    LET commas == {i \in 1..Len(author_name_str) : author_name_str[i] = ","}
        parts  == str_split(strip(author_name_str), " ")
        last_name ==
            IF commas # {}
            THEN strip(SubSeq(author_name_str, 1,
                     (CHOOSE i \in commas : \A j \in commas : i <= j) - 1))
            ELSE parts[Len(parts)]
        first_name_parts ==
            IF commas # {}
            THEN strip(Tail_from(author_name_str,
                     (CHOOSE i \in commas : \A j \in commas : i <= j) + 1))
            ELSE str_join(SubSeq(parts, 1, Len(parts) - 1))
    IN  [full_name        |-> strip(first_name_parts \o <<" ">> \o last_name),
         last_name        |-> last_name,
         first_name_parts |-> first_name_parts]

\* raw_author_names: the segments of the author field
raw_author_names(authors_raw) == re_split_and(authors_raw, 1, 1)

\* authors_list of one entry
parse_authors(authors_raw) ==
    LET segs == raw_author_names(authors_raw)
    IN  [i \in 1..Len(segs) |-> parse_author(segs[i])]

\* ------------------------------------------------------------------------
\* Matching a remote authorship to the local authors
\* ------------------------------------------------------------------------

\* the condition of the if that compares a local author to a remote name
name_matches(local_author, author_name_oa) ==
    /\ str_in(lower(local_author.last_name), lower(author_name_oa))
    /\ \/ local_author.first_name_parts = <<>>
       \/ str_in(lower(<<local_author.first_name_parts[1]>>),
                 lower(author_name_oa))

\* a JSON key that is not there
Absent == <<"absent">>

\* authorship.get("author", {}).get("display_name", "")
display_name_of(authorship) ==
    IF authorship.author = "absent" THEN <<>>
    ELSE IF authorship.display_name = Absent THEN <<>>
    ELSE authorship.display_name

\* authorship.get("institutions", [{}])[0].get("display_name", None)
affiliation_of(authorship) ==
    IF ~authorship.has_institutions THEN None
    ELSE IF authorship.institutions[1] = Absent THEN None
    ELSE authorship.institutions[1]

\* the exception the body of the authorship loop raises, "" if none
raised_by(authorship) ==
    IF authorship.author = "null" THEN "AttributeError"
    ELSE IF authorship.has_institutions /\ Len(authorship.institutions) = 0
         THEN "IndexError"
    ELSE IF display_name_of(authorship) = None THEN "AttributeError"
    ELSE ""

\* index of the local author at which the inner loop breaks, 0 if it runs
\* to its end
first_match(authors, author_name_oa) ==
    LET hits == {i \in 1..Len(authors) :
                    name_matches(authors[i], author_name_oa)}
    IN  IF hits = {} THEN 0 ELSE CHOOSE i \in hits : \A j \in hits : i <= j

\* the mutation of the fill: the slot is written even if it is taken
add_always(found, full_name, affiliation_name) ==
    [n \in DOMAIN found \cup {full_name} |->
        IF n = full_name THEN affiliation_name ELSE found[n]]

\* if full_name not in current_entry_authors: current_entry_authors[..] = ..
add_if_not_found(found, full_name, affiliation_name) ==
    IF full_name \in DOMAIN found THEN found
    ELSE [n \in DOMAIN found \cup {full_name} |->
             IF n = full_name THEN affiliation_name ELSE found[n]]

\* current_entry_authors after the loop body has run for one authorship
process_authorship(authors, found, authorship) ==
    LET m == first_match(authors, display_name_of(authorship))
    IN  IF m = 0 THEN found
        ELSE add_if_not_found(found, authors[m].full_name,
                              affiliation_of(authorship))

\* current_entry_authors.get(full_name)
dict_get(found, full_name) ==
    IF full_name \in DOMAIN found THEN found[full_name] ELSE None

\* the mutation of raise_for_status: a throttled response is let through
raises_on_server_error(status) == status >= 500

\* response.raise_for_status() raises HTTPError
raise_for_status(status) == status >= 400

\* ------------------------------------------------------------------------
\* The row appended for one author by the pass after the lookup
\* ------------------------------------------------------------------------

\* doi if doi else "N/A"
doi_or_na(d) == IF d # <<>> THEN d ELSE NA

\* the dictionary appended to all_authors_data for one author
outcome_row(author_info, found, d, t) ==
    LET author_full_name == author_info.full_name
    IN  IF dict_get(found, author_full_name) # None
        THEN [author_full_name |-> author_full_name,
              affiliation      |-> found[author_full_name],
              doi_used         |-> doi_or_na(d),
              title_used       |-> title_prefix(t)]
        ELSE IF t # <<>> /\ Len(t) > MinTitleLen
        THEN [author_full_name |-> author_full_name,
              affiliation      |-> dict_get(found, author_full_name),
              doi_used         |-> doi_or_na(d),
              title_used       |-> title_prefix(t)]
        ELSE [author_full_name |-> author_full_name,
              affiliation      |-> None,
              doi_used         |-> NA,
              title_used       |-> IF t # <<>> THEN title_prefix(t) ELSE NA]

\* ------------------------------------------------------------------------
\* The final table
\* ------------------------------------------------------------------------

\* the order of sort_values on one column, missing values last
row_before(a, b, col, ascending) ==
    IF a[col] = None THEN FALSE
    ELSE IF b[col] = None THEN TRUE
    ELSE IF ascending THEN str_lt(a[col], b[col])
    ELSE str_lt(b[col], a[col])

\* df.sort_values(col, ascending=.., na_position='last'); rows with equal
\* keys keep their order: missing values are appended in their order, and
\* below 17 rows the sort of the others is an insertion sort
RECURSIVE sort_values(_, _, _)
sort_values(rows, col, ascending) ==
    IF Len(rows) <= 1 THEN rows
    ELSE LET n      == Len(rows)
             sorted == sort_values(SubSeq(rows, 1, n - 1), col, ascending)
             x      == rows[n]
             after  == {i \in 1..(n - 1) :
                           row_before(x, sorted[i], col, ascending)}
             p      == IF after = {} THEN n
                       ELSE CHOOSE i \in after : \A j \in after : i <= j
         IN  SubSeq(sorted, 1, p - 1) \o <<x>> \o SubSeq(sorted, p, n - 1)

\* the mutation of drop_duplicates: nothing is dropped
keep_all(rows) == rows

\* df.drop_duplicates(subset=['author_full_name'], keep='first')
drop_duplicates(rows) ==
    LET first == {i \in 1..Len(rows) :
                    \A j \in 1..(i - 1) :
                        rows[j].author_full_name # rows[i].author_full_name}
        F[i \in 0..Len(rows)] ==
            IF i = 0 THEN <<>>
            ELSE IF i \in first THEN Append(F[i - 1], rows[i])
            ELSE F[i - 1]
    IN  F[Len(rows)]

\* the mutation of the deduplication: the rows are not sorted by affiliation
\* before the first drop_duplicates
deduplicated_unsorted(rows) ==
    IF rows = <<>> THEN <<>>
    ELSE sort_values(
             drop_duplicates(
                 sort_values(drop_duplicates(rows), "doi_used", FALSE)),
             "author_full_name", TRUE)

\* the table the function returns for the accumulated rows
deduplicated(rows) ==
    IF rows = <<>> THEN <<>>
    ELSE sort_values(
             drop_duplicates(
                 sort_values(
                     drop_duplicates(sort_values(rows, "affiliation", TRUE)),
                     "doi_used", FALSE)),
             "author_full_name", TRUE)

\* ------------------------------------------------------------------------
\* Inputs: the entries of the .bib file and the answers of the service
\* ------------------------------------------------------------------------

\* "Smith, John A."
Raw_example ==
    <<"S", "m", "i", "t", "h", ",", " ", "J", "o", "h", "n", " ", "A", ".">>

\* "SMITH, John AND Smith, Jane"
Raw_smiths ==
    <<"S", "M", "I", "T", "H", ",", " ", "J", "o", "h", "n", " ", "A", "N",
      "D", " ", "S", "m", "i", "t", "h", ",", " ", "J", "a", "n", "e">>

\* "Ana Kovacevic, with caron on the first c and acute on the last"
Raw_kovacevic ==
    <<"A", "n", "a", " ", "K", "o", "v", "a", "c^", "e", "v", "i", "c'">>

\* "Smith, John and "
Raw_trailing ==
    <<"S", "m", "i", "t", "h", ",", " ", "J", "o", "h", "n", " ", "a", "n",
      "d", " ">>

\* "10.1 "
Doi_padded ==
    <<"1", "0", ".", "1", " ">>

\* "Deep  Learning {for} Citations"
Title_long ==
    <<"D", "e", "e", "p", " ", " ", "L", "e", "a", "r", "n", "i", "n", "g",
      " ", "{", "f", "o", "r", "}", " ", "C", "i", "t", "a", "t", "i", "o",
      "n", "s">>

\* "{Deep} Nets"
Title_short ==
    <<"{", "D", "e", "e", "p", "}", " ", "N", "e", "t", "s">>

\* "Acme University"
Acme ==
    <<"A", "c", "m", "e", " ", "U", "n", "i", "v", "e", "r", "s", "i", "t",
      "y">>

\* "Beta Institute"
Beta ==
    <<"B", "e", "t", "a", " ", "I", "n", "s", "t", "i", "t", "u", "t", "e">>

\* "John A. Smith"
N_john_a_smith ==
    <<"J", "o", "h", "n", " ", "A", ".", " ", "S", "m", "i", "t", "h">>

\* "John Smith"
N_john_smith ==
    <<"J", "o", "h", "n", " ", "S", "m", "i", "t", "h">>

\* "Jane Smith"
N_jane_smith ==
    <<"J", "a", "n", "e", " ", "S", "m", "i", "t", "h">>

\* "Ana Kovacevic"
N_kovacevic ==
    <<"A", "n", "a", " ", "K", "o", "v", "a", "c", "e", "v", "i", "c">>

\* entry.get("author", ""): the author fields a .bib entry may carry
AuthorFields ==
    {<<>>, Raw_example, Raw_smiths, Raw_kovacevic, Raw_trailing}

\* entry.get("doi", "")
DoiFields == {<<>>, Doi_padded}

\* entry.get("title", "")
TitleFields == {Title_long, Title_short}

\* bib_database.entries: the entries the file may hold
Entries == [author : AuthorFields, doi : DoiFields, title : TitleFields]

\* one element of work_data["authorships"] with an author object and a
\* list of institutions
Authorship(display_name, institutions) ==
    [author           |-> "object",
     display_name     |-> display_name,
     has_institutions |-> TRUE,
     institutions     |-> institutions]

\* an authorship with neither an "author" nor an "institutions" key
BareAuthorship ==
    [author           |-> "absent",
     display_name     |-> Absent,
     has_institutions |-> FALSE,
     institutions     |-> <<>>]

\* the authorship lists of the works the service may describe
Works ==
    {<<Authorship(N_john_a_smith, <<Acme, Beta>>)>>,
     <<Authorship(N_john_smith, <<Acme>>), Authorship(N_jane_smith, <<Beta>>)>>,
     <<Authorship(N_kovacevic, <<Beta>>)>>,
     <<Authorship(N_john_smith, <<>>)>>,
     <<Authorship(None, <<Acme>>)>>,
     <<BareAuthorship, Authorship(N_john_smith, <<Absent>>),
       Authorship(N_john_smith, <<Acme>>)>>}

\* response bodies: text that is no JSON, JSON without "authorships",
\* and the works
NotJson == [decodes |-> FALSE, has_authorships |-> FALSE, authorships |-> <<>>]

NoAuthorships ==
    [decodes |-> TRUE, has_authorships |-> FALSE, authorships |-> <<>>]

WorkBody(w) == [decodes |-> TRUE, has_authorships |-> TRUE, authorships |-> w]

Bodies == {NotJson, NoAuthorships} \cup {WorkBody(w) : w \in Works}

HttpOk == 200

HttpNotFound == 404

HttpTooManyRequests == 429

\* what requests.get(url, timeout=10) may give: a transport error (status
\* 0), or a response with a status and a body
Responses ==
    {[kind |-> "transport", status |-> 0, body |-> NotJson]}
    \cup [kind : {"http"}, status : {HttpOk}, body : Bodies]
    \cup [kind : {"http"}, status : {HttpNotFound}, body : {NoAuthorships}]
    \cup [kind : {"http"}, status : {HttpTooManyRequests},
          body : {NoAuthorships,
                  WorkBody(<<Authorship(N_john_a_smith, <<Acme, Beta>>)>>)}]

\* no second answer is on offer
NoRetry == [kind |-> "none", status |-> 0, body |-> NotJson]

\* what the service would answer to a repeated request for the same DOI
\* after it has throttled the first one
RetryAnswers(r) ==
    IF r.kind = "http" /\ r.status = HttpTooManyRequests
    THEN {[kind |-> "http", status |-> HttpOk, body |-> WorkBody(w)] :
             w \in {<<Authorship(N_john_a_smith, <<Acme, Beta>>)>>}}
    ELSE {NoRetry}

\* ------------------------------------------------------------------------
\* State
\* ------------------------------------------------------------------------

VARIABLES
    pc,                     \* where get_affiliations_from_bib stands
    entries,                \* the entries of bib_database.entries read so far
    doi,                    \* doi of the entry at hand, stripped
    title,                  \* title of the entry at hand, cleaned
    authors_list,           \* the parsed authors of the entry at hand
    current_entry_authors,  \* full name -> affiliation found by the lookup
    authorships,            \* authorships of work_data still to be matched
    author_idx,             \* position of the pass over authors_list
    all_authors_data,       \* the rows accumulated so far
    row_src,                \* for every row, the index of its entry
    df,                     \* the table returned
    exception,              \* the exception that left the function, or ""
    response,               \* the answer to the DOI request of this entry
    retry,                  \* what a second request would have been answered
    requests,               \* the requests sent for the entry at hand
    lookup_error,           \* the exception caught around the lookup, or ""
    matched                 \* the last authorship matched and where it broke

vars ==
    <<pc, entries, doi, title, authors_list, current_entry_authors,
      authorships, author_idx, all_authors_data, row_src, df, exception,
      response, retry, requests, lookup_error, matched>>

NoMatch == [seen |-> FALSE, name |-> <<>>, affiliation |-> None, local |-> 0]

Init ==
    /\ pc = "open"
    /\ entries = <<>>
    /\ doi = <<>>
    /\ title = <<>>
    /\ authors_list = <<>>
    /\ current_entry_authors = <<>>
    /\ authorships = <<>>
    /\ author_idx = 1
    /\ all_authors_data = <<>>
    /\ row_src = <<>>
    /\ df = <<>>
    /\ exception = ""
    /\ response = NoRetry
    /\ retry = NoRetry
    /\ requests = <<>>
    /\ lookup_error = ""
    /\ matched = NoMatch

\* ------------------------------------------------------------------------
\* Steps
\* ------------------------------------------------------------------------

\* the file is missing or cannot be parsed: an empty table is returned
OpenFails ==
    /\ pc = "open"
    /\ pc' = "returned"
    /\ UNCHANGED <<entries, doi, title, authors_list, current_entry_authors,
                   authorships, author_idx, all_authors_data, row_src, df,
                   exception, response, retry, requests, lookup_error,
                   matched>>

\* the file is read
OpenOk ==
    /\ pc = "open"
    /\ pc' = "loop"
    /\ UNCHANGED <<entries, doi, title, authors_list, current_entry_authors,
                   authorships, author_idx, all_authors_data, row_src, df,
                   exception, response, retry, requests, lookup_error,
                   matched>>

\* an entry without author field: doi and title are read, the entry skipped
SkipEntry ==
    /\ pc = "loop"
    /\ Len(entries) < MaxEntries
    /\ \E entry \in Entries :
        /\ entry.author = <<>>
        /\ entries' = Append(entries, entry)
        /\ doi' = strip(entry.doi)
        /\ title' = strip(entry.title)
    /\ UNCHANGED <<pc, authors_list, current_entry_authors, authorships,
                   author_idx, all_authors_data, row_src, df, exception,
                   response, retry, requests, lookup_error, matched>>

\* an entry with an author field: its fields are read and its authors parsed
ReadEntry ==
    /\ pc = "loop"
    /\ Len(entries) < MaxEntries
    /\ \E entry \in Entries :
        /\ entry.author # <<>>
        /\ entries' = Append(entries, entry)
        /\ doi' = strip(entry.doi)
        /\ title' = clean_title(entry.title)
        /\ authors_list' = parse_authors(entry.author)
        /\ pc' = IF strip(entry.doi) # <<>> THEN "lookup" ELSE "fallback"
    /\ current_entry_authors' = <<>>
    /\ authorships' = <<>>
    /\ author_idx' = 1
    /\ response' = NoRetry
    /\ retry' = NoRetry
    /\ requests' = <<>>
    /\ lookup_error' = ""
    /\ matched' = NoMatch
    /\ UNCHANGED <<all_authors_data, row_src, df, exception>>

\* the work is requested by DOI; a failure is caught and printed
DoiLookup ==
    /\ pc = "lookup"
    /\ \E r \in Responses : \E again \in RetryAnswers(r) :
        /\ response' = r
        /\ retry' = again
        /\ requests' = Append(requests, "works/doi")
        /\ lookup_error' =
              IF r.kind = "transport" \/ raise_for_status(r.status)
              THEN "RequestException"
              ELSE IF ~r.body.decodes THEN "ValueError"
              ELSE ""
        /\ authorships' =
              IF /\ r.kind = "http"
                 /\ ~raise_for_status(r.status)
                 /\ r.body.decodes
                 /\ r.body.has_authorships
              THEN r.body.authorships
              ELSE <<>>
        /\ pc' = IF authorships' # <<>> THEN "authorships" ELSE "fallback"
    /\ UNCHANGED <<entries, doi, title, authors_list, current_entry_authors,
                   author_idx, all_authors_data, row_src, df, exception,
                   matched>>

\* one authorship of the work is matched against the local authors
MatchAuthorship ==
    /\ pc = "authorships"
    /\ raised_by(Head(authorships)) = ""
    /\ current_entry_authors' =
          process_authorship(authors_list, current_entry_authors,
                             Head(authorships))
    /\ matched' =
          [seen  |-> TRUE,
           name  |-> display_name_of(Head(authorships)),
           affiliation |-> affiliation_of(Head(authorships)),
           local |-> first_match(authors_list,
                                 display_name_of(Head(authorships)))]
    /\ authorships' = Tail(authorships)
    /\ pc' = IF Tail(authorships) # <<>> THEN "authorships" ELSE "fallback"
    /\ UNCHANGED <<entries, doi, title, authors_list, author_idx,
                   all_authors_data, row_src, df, exception, response,
                   retry, requests, lookup_error>>

\* the body of the authorship loop raises an exception no handler catches
AuthorshipRaises ==
    /\ pc = "authorships"
    /\ raised_by(Head(authorships)) # ""
    /\ exception' = raised_by(Head(authorships))
    /\ pc' = "raised"
    /\ UNCHANGED <<entries, doi, title, authors_list, current_entry_authors,
                   authorships, author_idx, all_authors_data, row_src, df,
                   response, retry, requests, lookup_error, matched>>

\* the pass over authors_list appends the row of one author
FallbackAuthor ==
    /\ pc = "fallback"
    /\ all_authors_data' =
          Append(all_authors_data,
                 outcome_row(authors_list[author_idx], current_entry_authors,
                             doi, title))
    /\ row_src' = Append(row_src, Len(entries))
    /\ author_idx' = author_idx + 1
    /\ pc' = IF author_idx < Len(authors_list) THEN "fallback" ELSE "loop"
    /\ UNCHANGED <<entries, doi, title, authors_list, current_entry_authors,
                   authorships, df, exception, response, retry, requests,
                   lookup_error, matched>>

\* the entries are exhausted: the rows are deduplicated and returned
Return ==
    /\ pc = "loop"
    /\ df' = deduplicated(all_authors_data)
    /\ pc' = "returned"
    /\ UNCHANGED <<entries, doi, title, authors_list, current_entry_authors,
                   authorships, author_idx, all_authors_data, row_src,
                   exception, response, retry, requests, lookup_error,
                   matched>>

Next ==
    \/ OpenFails
    \/ OpenOk
    \/ SkipEntry
    \/ ReadEntry
    \/ DoiLookup
    \/ MatchAuthorship
    \/ AuthorshipRaises
    \/ FallbackAuthor
    \/ Return

Spec == Init /\ [][Next]_vars

\* ------------------------------------------------------------------------
\* Properties
\* ------------------------------------------------------------------------

Rows == 1..Len(all_authors_data)

\* index of the last entry read that was not skipped, 0 if there is none
LastRead ==
    LET read == {k \in 1..Len(entries) : entries[k].author # <<>>}
    IN  IF read = {} THEN 0 ELSE CHOOSE k \in read : \A j \in read : j <= k

\* the pass over the authors of the last entry read has ended
RecordDone ==
    /\ pc = "loop"
    /\ entries # <<>>
    /\ LastRead = Len(entries)

\* the rows appended for the last entry read
RecordRows == {i \in Rows : row_src[i] = LastRead}

\* number of authors parsed from the first k entries read
RECURSIVE ParsedCount(_)
ParsedCount(k) ==
    IF k = 0 THEN 0
    ELSE ParsedCount(k - 1)
         + (IF entries[k].author = <<>> THEN 0
            ELSE Len(parse_authors(entries[k].author)))

\* the author names among the accumulated rows
RowNames == {all_authors_data[i].author_full_name : i \in Rows}

\* C1: while one record is processed, an affiliation that has been set to a
\* value other than None is not changed by any later step on that record,
\* and a row appended for that author carries exactly that value.
C1_MonotonicFill ==
    [][\A n \in DOMAIN current_entry_authors :
          (current_entry_authors[n] # None /\ entries' = entries)
          => /\ n \in DOMAIN current_entry_authors'
             /\ current_entry_authors'[n] = current_entry_authors[n]
             /\ \A i \in (Len(all_authors_data) + 1)..Len(all_authors_data') :
                   all_authors_data'[i].author_full_name = n
                   => all_authors_data'[i].affiliation
                         = current_entry_authors[n]]_vars

\* C1 witness: an author was filled, a later authorship of the same response
\* with another affiliation matched the same author, and the author's row
\* has been appended.
C1_Witness ==
    /\ RecordDone
    /\ matched.seen
    /\ matched.local # 0
    /\ LET n == authors_list[matched.local].full_name
       IN  /\ n \in DOMAIN current_entry_authors
           /\ current_entry_authors[n] # None
           /\ matched.affiliation # None
           /\ matched.affiliation # current_entry_authors[n]
           /\ \E i \in RecordRows :
                 /\ all_authors_data[i].author_full_name = n
                 /\ all_authors_data[i].affiliation = current_entry_authors[n]

\* C2: no outcome of the identifier lookup makes an exception leave the
\* function: the run is never aborted.
C2_NoAbort == pc # "raised" /\ exception = ""

RECURSIVE match_all(_, _, _)
match_all(authors, found, ships) ==
    IF ships = <<>> THEN found
    ELSE match_all(authors, process_authorship(authors, found, Head(ships)),
                   Tail(ships))

\* the service throttled the request for the last entry read
Throttled ==
    /\ LastRead # 0
    /\ response.kind = "http"
    /\ response.status = HttpTooManyRequests

C5_TitleSearchQueried ==
    (/\ RecordDone
     /\ Len(title) > MinTitleLen
     /\ \E i \in 1..Len(authors_list) :
           dict_get(current_entry_authors, authors_list[i].full_name) = None)
    => \E q \in 1..Len(requests) : requests[q] = "works?search"

\* the authorships of the response that satisfy the matcher for a local author
MatchingShips(local_author) ==
    {k \in 1..Len(response.body.authorships) :
        name_matches(local_author,
                     display_name_of(response.body.authorships[k]))}

\* C6: after the identifier lookup has matched a response, every local
\* author (one with a name) that some authorship of the response matches has
\* the affiliation of the earliest authorship that matches it.
C6_EarliestMatchingAuthorship ==
    (/\ pc = "fallback"
     /\ matched.seen
     /\ authorships = <<>>)
    => \A i \in 1..Len(authors_list) :
          (/\ authors_list[i].full_name # <<>>
           /\ MatchingShips(authors_list[i]) # {})
          => LET k == CHOOSE k \in MatchingShips(authors_list[i]) :
                         \A j \in MatchingShips(authors_list[i]) : k <= j
             IN  /\ authors_list[i].full_name \in DOMAIN current_entry_authors
                 /\ current_entry_authors[authors_list[i].full_name]
                       = affiliation_of(response.body.authorships[k])

\* the base letter of an accented letter
Unaccented(c) ==
    IF c \in {"c^", "c'"} THEN "c"
    ELSE IF c \in {"C^", "C'"} THEN "C"
    ELSE c

\* the lower-case letter of a capital, by its code point: 32 further for
\* A to Z, the next one for the accented capitals
CaseFoldedOf ==
    [c \in Chars |->
        IF ord(c) >= ord("A") /\ ord(c) <= ord("Z")
        THEN CodePoints[ord(c) + (ord("a") - ord("A"))]
        ELSE IF c \in {"C^", "C'"} THEN CodePoints[ord(c) + 1]
        ELSE c]

CaseFolded(c) == CaseFoldedOf[c]

\* lower-cased
CaseFold(s) == [i \in 1..Len(s) |-> CaseFolded(s[i])]

\* lower-cased, diacritics stripped
Fold(s) == [i \in 1..Len(s) |-> CaseFolded(Unaccented(s[i]))]

\* t occurs in s
Occurs(t, s) ==
    \E i \in 0..(Len(s) - Len(t)) : SubSeq(s, i + 1, i + Len(t)) = t

\* the match decision with case and diacritics folded
FoldedMatch(local_author, remote) ==
    /\ Occurs(Fold(local_author.last_name), Fold(remote))
    /\ \/ local_author.first_name_parts = <<>>
       \/ Occurs(Fold(<<Head(local_author.first_name_parts)>>), Fold(remote))

\* the match decision with case folded only
CaseFoldedMatch(local_author, remote) ==
    /\ Occurs(CaseFold(local_author.last_name), CaseFold(remote))
    /\ \/ local_author.first_name_parts = <<>>
       \/ Occurs(CaseFold(<<Head(local_author.first_name_parts)>>),
                 CaseFold(remote))

C8_BlankSegmentsDropped ==
    /\ LastRead # 0 =>
          Len(authors_list) =
             Cardinality({i \in 1..Len(raw_author_names(entries[LastRead].author)) :
                            strip(raw_author_names(entries[LastRead].author)[i])
                               # <<>>})
    /\ \A i \in 1..Len(authors_list) : authors_list[i].full_name # <<>>
    /\ \A i \in Rows : all_authors_data[i].author_full_name # <<>>

\* C9: in the returned table, the row of an author name for which some
\* accumulated row has an affiliation has an affiliation.
C9_NonNullKept ==
    pc = "returned" =>
       \A i \in Rows :
          all_authors_data[i].affiliation # None
          => /\ \E j \in 1..Len(df) :
                   df[j].author_full_name = all_authors_data[i].author_full_name
             /\ \A j \in 1..Len(df) :
                   df[j].author_full_name = all_authors_data[i].author_full_name
                   => df[j].affiliation # None

\* C9 witness: a table was returned for rows in which a name first has no
\* affiliation and later has one.
C9_Witness ==
    /\ pc = "returned"
    /\ \E i, k \in Rows :
          /\ i < k
          /\ all_authors_data[i].author_full_name
                = all_authors_data[k].author_full_name
          /\ all_authors_data[i].affiliation = None
          /\ all_authors_data[k].affiliation # None

\* C10: in the returned table, the row of an author name whose accumulated
\* rows all lack an affiliation, one of them from a record with a DOI, has
\* that DOI in doi_used and not "N/A".
C10_DoiRowPreferred ==
    pc = "returned" =>
       \A j \in 1..Len(df) :
          (/\ \A i \in Rows :
                 all_authors_data[i].author_full_name = df[j].author_full_name
                 => all_authors_data[i].affiliation = None
           /\ \E i \in Rows :
                 /\ all_authors_data[i].author_full_name
                       = df[j].author_full_name
                 /\ strip(entries[row_src[i]].doi) # <<>>)
          => df[j].doi_used # NA

=============================================================================
